---- MODULE Spec2Model ----
(***************************************************************************)
(* ccthief: symbol-level extraction of a C program (src/src/main.rs).      *)
(*                                                                         *)
(* The program is one run-to-completion pipeline:                          *)
(*   discovery -> dependency analysis -> declaration/definition merge      *)
(*   -> extract_symbols (flood fill) -> per-file grouping -> emission.     *)
(* The parsed translation units (the answers of libclang) are the input:   *)
(* a "world" is the list of top-level entities with the attributes the     *)
(* code reads from them.  Iteration over HashMap/HashSet has no fixed      *)
(* order; those loops are modelled with a free choice of the next element. *)
(***************************************************************************)
EXTENDS Integers, Sequences, FiniteSets, TLC

VARIABLES
    world,              \* the parsed input (entities, sources, targets)
    pc,                 \* position of main()
    run,                \* 1: first run, 2: a second run over the same input
    sym_table,          \* HashMap<Entity, SymbolDesc>      (main.rs:201)
    includes,           \* HashSet<Entity>                   (main.rs:202)
    system_includes,    \* HashMap<String, CanonicalPath>    (main.rs:203)
    tui,                \* index of the translation unit of the current loop
    ci,                 \* index of the child of the loop at main.rs:262
    macros,             \* BTreeMap<u32, Entity> of the unit (main.rs:246)
    table0,             \* history: sym_table as it was when the merge began
    decl_to_def_table,  \* HashMap<Location, HashSet<Entity>> (main.rs:283)
    merged1,            \* keys already seen by the loop at main.rs:285
    merged2,            \* keys already seen by the loop at main.rs:296
    q,                  \* VecDeque of extract_symbols       (main.rs:139)
    visited,            \* HashSet of extract_symbols        (main.rs:138)
    seeds,              \* history: the keys pushed by the seeding loop
    extracted_symbols,  \* result of extract_symbols         (main.rs:308)
    symbols_per_file,   \* HashMap<CanonicalPath, BTreeSet<OrdSymbol>>
    unparsable_includes,\* HashSet<Entity>                   (main.rs:339)
    grouped,            \* extracted symbols already seen by main.rs:341
    includes_per_file,  \* HashMap<CanonicalPath, BTreeSet<OrdSymbol>>
    igrouped,           \* includes already seen by main.rs:355
    files_to_process,   \* HashSet<CanonicalPath>            (main.rs:375)
    processed,          \* files already seen by the loop at main.rs:413
    output,             \* target_dir: file -> sequence of source line numbers
    copied,             \* target_dir: files copied verbatim (main.rs:459)
    prev                \* history: the output tree of the first run

vars == << world, pc, run, sym_table, includes, system_includes, tui, ci,
           macros, table0, decl_to_def_table, merged1, merged2, q, visited,
           seeds, extracted_symbols, symbols_per_file, unparsable_includes,
           grouped, includes_per_file, igrouped, files_to_process, processed,
           output, copied, prev >>

(***************************************************************************)
(* Bounds of the model.                                                    *)
(***************************************************************************)
\* last line of the function body in the macro worlds (lines 2..MaxLine)
MaxLine == 4
\* largest number of deps/definitions edges of a drawn symbol table
MaxEdges == 2

(***************************************************************************)
(* Paths.  A path is a sequence of tokens, "/" separating its components,  *)
(* so that substring tests and file_name()/pop()/join() are computed.      *)
(***************************************************************************)
Slashes(p) == { i \in 1..Len(p) : p[i] = "/" }

LastSlash(p) == IF Slashes(p) = {} THEN 0
                ELSE CHOOSE i \in Slashes(p) : \A j \in Slashes(p) : j <= i

\* Path::file_name
file_name(p) == SubSeq(p, LastSlash(p) + 1, Len(p))

\* PathBuf::pop
pop(p) == SubSeq(p, 1, LastSlash(p) - 1)

\* PathBuf::join
join(dir, name) == dir \o << "/" >> \o name

\* str::contains
contains(s, t) == \E i \in 1..(Len(s) + 1) :
                     /\ i + Len(t) - 1 <= Len(s)
                     /\ SubSeq(s, i, i + Len(t) - 1) = t

InExamples(name) == join(<< "/", "examples" >>, name)
InUsr(name)      == join(<< "/", "usr" >>, name)

(***************************************************************************)
(* Entities.  An entity is the index of its record in world.ents; the      *)
(* children of a translation unit are its entities in index order.         *)
(*   kind    "Decl" | "MacroDefinition" | "MacroExpansion" |               *)
(*           "InclusionDirective"                                          *)
(*   name    get_name() of a declaration or macro ("" for None)            *)
(*   incl    get_name() of an inclusion directive: the file as spelled     *)
(*   tu      the translation unit the cursor belongs to                    *)
(*   file, line, col   get_location().get_file_location()                  *)
(*   start, end        lines of get_range()                                *)
(*   expline           get_location().get_expansion_location().line        *)
(*   isdef   is_definition()          sys  is_in_system_header()           *)
(*   def     get_definition(): an entity, or 0 for None                    *)
(*   refs    one record per descendant whose get_definition() is Some:     *)
(*           d  the definition (0: not a top-level entity),                *)
(*           ty get_type().get_declaration() of it (0: None),              *)
(*           td get_typedef_underlying_type().get_declaration() (0: None)  *)
(***************************************************************************)
Ent(w) == 1..Len(w.ents)

kind(w, e) == w.ents[e].kind

is_declaration(w, e) == kind(w, e) = "Decl"

is_definition(w, e) == kind(w, e) = "Decl" /\ w.ents[e].isdef

get_path(w, e) == w.ents[e].file

get_file_location(w, e) ==
    [file |-> w.ents[e].file, line |-> w.ents[e].line, column |-> w.ents[e].col]

children(w, t) ==
    SelectSeq([i \in 1..Len(w.ents) |-> i], LAMBDA e : w.ents[e].tu = t)

Ref(d, ty, td) == [d |-> d, ty |-> ty, td |-> td]

Decl(name, tu, file, line, start, end, isdef, def, refs) ==
    [kind |-> "Decl", name |-> name, incl |-> << >>, tu |-> tu, file |-> file,
     line |-> line, col |-> 5, start |-> start, end |-> end, expline |-> line,
     isdef |-> isdef, sys |-> FALSE, def |-> def, refs |-> refs]

Prep(k, name, incl, tu, file, line) ==
    [kind |-> k, name |-> name, incl |-> incl, tu |-> tu, file |-> file,
     line |-> line, col |-> 1, start |-> line, end |-> line, expline |-> line,
     isdef |-> FALSE, sys |-> FALSE, def |-> 0, refs |-> {}]

(***************************************************************************)
(* The inputs.                                                             *)
(***************************************************************************)
main_c   == InExamples(<< "main", ".c" >>)
util_c   == InExamples(<< "util", ".c" >>)
util_h   == InExamples(<< "util", ".h" >>)
base_h   == InExamples(<< "base", ".h" >>)
body_inc == InExamples(<< "body", ".inc" >>)
stdio_h  == InUsr(<< "stdio", ".h" >>)

\* Scenario A.  main.c:
\*   1  int helper(void);
\*   2  int main(void) { return helper(); }
\*   3  int helper(void) { return 1; }
\*   4  int unused(void) { return 2; }
ScenarioA ==
    [ents |-> <<
        Decl("helper", 1, main_c, 1, 1, 1, FALSE, 3, {}),
        Decl("main",   1, main_c, 2, 2, 2, TRUE,  2, {Ref(3, 0, 0)}),
        Decl("helper", 1, main_c, 3, 3, 3, TRUE,  3, {}),
        Decl("unused", 1, main_c, 4, 4, 4, TRUE,  4, {}) >>,
     tus |-> << 1 >>, src |-> << main_c >>, targets |-> {"main"}]

\* Scenario C.  main.c:              util.h:
\*   1  #include "util.h"              1  int add(int a, int b);
\*   2  int main(void) {             util.c:
\*   3    return add(1, 2);            1  #include "util.h"
\*   4  }                              2  int add(int a, int b) {
\*                                     3    return a + b;
\*                                     4  }
\* Unit 1 (main.c) holds no definition of add: get_definition() of the call
\* in main and of the declaration seen by unit 1 is None.
ScenarioC(order) ==
    [ents |-> <<
        Prep("InclusionDirective", "", << "util", ".h" >>, 1, main_c, 1),
        Decl("add",  1, util_h, 1, 1, 1, FALSE, 0, {Ref(0, 0, 0)}),
        Decl("main", 1, main_c, 2, 2, 4, TRUE,  3, {}),
        Prep("InclusionDirective", "", << "util", ".h" >>, 2, util_c, 1),
        Decl("add",  2, util_h, 1, 1, 1, FALSE, 6, {Ref(0, 0, 0)}),
        Decl("add",  2, util_c, 2, 2, 4, TRUE,  6, {Ref(0, 0, 0)}) >>,
     tus |-> order, src |-> << main_c, util_c >>, targets |-> {"main"}]

\* Macros.  main.c:                          util.h:
\*   1  #include "util.h"                      1  #include "base.h"
\*   2  int v; int main(void) {                2  #define FOO 1
\*   3    return FOO + v + g()                 3  int g(void) { return 0; }
\*   ..     + BAR        (BAR on line bl)      4  #define BAR 2
\*   MaxLine  ; }
WorldM(bl) ==
    [ents |-> <<
        Prep("InclusionDirective", "", << "util", ".h" >>, 1, main_c, 1),
        Prep("InclusionDirective", "", << "base", ".h" >>, 1, util_h, 1),
        Prep("MacroDefinition", "FOO", << >>, 1, util_h, 2),
        Prep("MacroDefinition", "BAR", << >>, 1, util_h, 4),
        Prep("MacroExpansion", "FOO", << >>, 1, main_c, 3),
        Prep("MacroExpansion", "BAR", << >>, 1, main_c, bl),
        Decl("g",    1, util_h, 3, 3, 3, TRUE, 7, {}),
        Decl("v",    1, main_c, 2, 2, 2, TRUE, 8, {}),
        [Decl("main", 1, main_c, 2, 2, MaxLine, TRUE, 9,
              {Ref(7, 0, 0), Ref(8, 0, 0)}) EXCEPT !.col = 12] >>,
     tus |-> << 1 >>, src |-> << main_c >>, targets |-> {"main"}]

\* An include inside a function.  main.c:     body.inc:
\*   1  int main(void) {                        (1  #define LOCAL 5)
\*   2    int x = 0;                             2  return VAL + x;
\*   3  #include "body.inc"
\*   4  }
\* VAL is a macro of the command line; with hasDef the fragment also
\* defines a macro of its own.
WorldI(hasDef) ==
    [ents |-> << Prep("InclusionDirective", "", << "body", ".inc" >>, 1, main_c, 3) >>
              \o (IF hasDef
                  THEN << Prep("MacroDefinition", "LOCAL", << >>, 1, body_inc, 1) >>
                  ELSE << >>)
              \o << Prep("MacroExpansion", "VAL", << >>, 1, body_inc, 2),
                    Decl("main", 1, main_c, 1, 1, 4, TRUE,
                         IF hasDef THEN 4 ELSE 3, {Ref(0, 0, 0)}) >>,
     tus |-> << 1 >>, src |-> << main_c >>, targets |-> {"main"}]

\* A system header and types.  main.c:
\*   1  #include <stdio.h>
\*   2  struct S { int x; };
\*   3  typedef struct S T;
\*   4  int main(void) { T local; puts("x"); return 0; }
\* puts is declared at stdio.h:5 and has no definition in the unit.
WorldS ==
    [ents |-> <<
        Prep("InclusionDirective", "", << "stdio", ".h" >>, 1, main_c, 1),
        [Decl("puts", 1, stdio_h, 5, 5, 5, FALSE, 0, {}) EXCEPT !.sys = TRUE],
        Decl("S",    1, main_c, 2, 2, 2, TRUE, 3, {Ref(0, 0, 0)}),
        Decl("T",    1, main_c, 3, 3, 3, TRUE, 4, {Ref(3, 3, 0)}),
        Decl("main", 1, main_c, 4, 4, 4, TRUE, 5,
             {Ref(0, 4, 0), Ref(4, 4, 3)}) >>,
     tus |-> << 1 >>, src |-> << main_c >>, targets |-> {"main"}]

Worlds ==
    {ScenarioA, WorldS}
    \cup {ScenarioC(o) : o \in {<< 1, 2 >>, << 2, 1 >>}}
    \cup {WorldM(bl) : bl \in 3..MaxLine}
    \cup {WorldI(h) : h \in BOOLEAN}

(***************************************************************************)
(* Maps.                                                                   *)
(***************************************************************************)
EmptyMap == [x \in {} |-> {}]

\* HashMap::insert / BTreeMap::insert: the value of an existing key is replaced
Put(f, k, v) == [x \in DOMAIN f \cup {k} |-> IF x = k THEN v ELSE f[x]]

\* SymbolDesc::default
DefaultDesc == [deps |-> {}, definitions |-> {}]

\* sequences that enumerate the set S, each element once: the orders in which
\* a HashSet can be iterated
RECURSIVE Orders(_)
Orders(S) == IF S = {} THEN {<< >>}
             ELSE UNION {{<< x >> \o o : o \in Orders(S \ {x})} : x \in S}

(***************************************************************************)
(* Symbol discovery (main.rs:219-239), one translation unit per step.      *)
(***************************************************************************)
RECURSIVE DiscoverFold(_, _, _, _)
DiscoverFold(w, cs, i, st) ==
    IF i > Len(cs) THEN st
    ELSE LET child == cs[i]
             st1 == IF is_definition(w, child) \/ is_declaration(w, child)
                    THEN [st EXCEPT !.sym_table = Put(@, child, DefaultDesc)]
                    ELSE IF kind(w, child) = "InclusionDirective"
                         THEN [st EXCEPT !.includes = @ \cup {child}]
                         ELSE st
             st2 == IF w.ents[child].sys
                    THEN [st1 EXCEPT !.system_includes =
                              Put(@, file_name(get_path(w, child)), get_path(w, child))]
                    ELSE st1
         IN  DiscoverFold(w, cs, i + 1, st2)

(***************************************************************************)
(* The macro index of one translation unit (main.rs:246-260).              *)
(***************************************************************************)
RECURSIVE MacroIndex(_, _, _, _)
MacroIndex(w, cs, i, m) ==
    IF i > Len(cs) THEN m
    ELSE LET child == cs[i]
         IN  IF w.ents[child].sys THEN MacroIndex(w, cs, i + 1, m)
             ELSE IF kind(w, child) \in {"MacroExpansion", "InclusionDirective",
                                         "MacroDefinition"}
                  THEN MacroIndex(w, cs, i + 1, Put(m, w.ents[child].expline, child))
                  ELSE MacroIndex(w, cs, i + 1, m)

(***************************************************************************)
(* visit (main.rs:51-130).  The result is the descriptor, or a panic       *)
(* (main.rs:109) when an entry of the range is a macro definition.         *)
(***************************************************************************)
\* main.rs:63-86
ChildDeps(w, entity, keys) ==
    UNION { (IF r.d \in keys THEN {r.d} ELSE {})
            \cup (IF r.ty # 0 /\ r.ty \in keys THEN {r.ty} ELSE {})
            \cup (IF r.td # 0 /\ r.td \in keys THEN {r.td} ELSE {})
            : r \in w.ents[entity].refs }

\* main.rs:97-100: the entries of macros.range(start..=end) in the entity's file
InRange(w, entity, m) ==
    { m[l] : l \in { k \in DOMAIN m :
                       /\ w.ents[entity].start <= k
                       /\ k <= w.ents[entity].end
                       /\ w.ents[m[k]].file = w.ents[entity].file } }

\* main.rs:116-127
IncludeScan(w, incs, m) ==
    { m[l] : l \in { k \in DOMAIN m :
                       \E include \in incs :
                           contains(get_path(w, m[k]), w.ents[include].incl) } }

visit(w, entity, keys, m) ==
    LET found    == InRange(w, entity, m)
        incs     == { c \in found : kind(w, c) = "InclusionDirective" }
        expanded == { c \in found : kind(w, c) = "MacroExpansion" }
    IN  [panic |-> \E c \in found :
                      kind(w, c) \notin {"MacroExpansion", "InclusionDirective"},
         desc  |-> [definitions |-> IF w.ents[entity].def # 0
                                    THEN {w.ents[entity].def} ELSE {},
                    deps |-> ChildDeps(w, entity, keys) \cup expanded \cup incs
                             \cup IncludeScan(w, incs, m)]]

(***************************************************************************)
(* The state after construction (main.rs:194-203).                         *)
(***************************************************************************)
Fresh(w) ==
    /\ world = w
    /\ includes = {}
    /\ system_includes = EmptyMap
    /\ tui = 1
    /\ ci = 0
    /\ macros = EmptyMap
    /\ decl_to_def_table = EmptyMap
    /\ merged1 = {}
    /\ merged2 = {}
    /\ q = << >>
    /\ visited = {}
    /\ seeds = {}
    /\ extracted_symbols = {}
    /\ symbols_per_file = EmptyMap
    /\ unparsable_includes = {}
    /\ grouped = {}
    /\ includes_per_file = EmptyMap
    /\ igrouped = {}
    /\ files_to_process = {}
    /\ processed = {}
    /\ output = EmptyMap
    /\ copied = {}

Init ==
    /\ \E w \in Worlds : Fresh(w)
    /\ sym_table = EmptyMap
    /\ table0 = EmptyMap
    /\ pc = "discover"
    /\ run = 1
    /\ prev = << >>

\* main.rs:219-239
Discover ==
    /\ pc = "discover"
    /\ LET st == DiscoverFold(world, children(world, world.tus[tui]), 1,
                              [sym_table |-> sym_table, includes |-> includes,
                               system_includes |-> system_includes])
       IN  /\ sym_table' = st.sym_table
           /\ includes' = st.includes
           /\ system_includes' = st.system_includes
    /\ IF tui < Len(world.tus)
       THEN tui' = tui + 1 /\ pc' = pc
       ELSE tui' = 1 /\ pc' = "analyse"
    /\ UNCHANGED << world, run, ci, macros, table0, decl_to_def_table, merged1,
                    merged2, q, visited, seeds, extracted_symbols,
                    symbols_per_file, unparsable_includes, grouped,
                    includes_per_file, igrouped, files_to_process, processed,
                    output, copied, prev >>

\* main.rs:246-260
BuildMacros ==
    /\ pc = "analyse"
    /\ ci = 0
    /\ macros' = MacroIndex(world, children(world, world.tus[tui]), 1, EmptyMap)
    /\ ci' = 1
    /\ UNCHANGED << world, pc, run, sym_table, includes, system_includes, tui,
                    table0, decl_to_def_table, merged1, merged2, q, visited,
                    seeds, extracted_symbols, symbols_per_file,
                    unparsable_includes, grouped, includes_per_file, igrouped,
                    files_to_process, processed, output, copied, prev >>

\* main.rs:262-276, one child per step
AnalyseChild ==
    /\ pc = "analyse"
    /\ ci >= 1
    /\ ci <= Len(children(world, world.tus[tui]))
    /\ LET child == children(world, world.tus[tui])[ci]
           r     == visit(world, child, DOMAIN sym_table, macros)
       IN  IF world.ents[child].sys
              \/ ~(is_definition(world, child) \/ is_declaration(world, child))
           THEN sym_table' = sym_table /\ pc' = pc
           ELSE IF r.panic
                THEN sym_table' = sym_table /\ pc' = "panic_visit"
                ELSE sym_table' = Put(sym_table, child, r.desc) /\ pc' = pc
    /\ ci' = ci + 1
    /\ UNCHANGED << world, run, includes, system_includes, tui, macros, table0,
                    decl_to_def_table, merged1, merged2, q, visited, seeds,
                    extracted_symbols, symbols_per_file, unparsable_includes,
                    grouped, includes_per_file, igrouped, files_to_process,
                    processed, output, copied, prev >>

\* end of one iteration of the loop at main.rs:245
NextUnit ==
    /\ pc = "analyse"
    /\ ci > Len(children(world, world.tus[tui]))
    /\ ci' = 0
    /\ macros' = EmptyMap
    /\ IF tui < Len(world.tus)
       THEN tui' = tui + 1 /\ pc' = pc /\ table0' = table0
       ELSE /\ tui' = 1
            /\ pc' = IF DOMAIN sym_table = {} THEN "seed" ELSE "merge1"
            /\ table0' = sym_table
    /\ UNCHANGED << world, run, sym_table, includes, system_includes,
                    decl_to_def_table, merged1, merged2, q, visited, seeds,
                    extracted_symbols, symbols_per_file, unparsable_includes,
                    grouped, includes_per_file, igrouped, files_to_process,
                    processed, output, copied, prev >>

(***************************************************************************)
(* Declaration/definition merge (main.rs:279-306).  Both loops iterate the *)
(* HashMap: any key not yet seen may come next.                            *)
(***************************************************************************)
\* the mutation of C4: insert() in place of entry().or_insert() loses the
\* definitions collected before
AccumulateOverwriting(tbl, loc, defs) == Put(tbl, loc, defs)

\* main.rs:288-292
Accumulate(tbl, loc, defs) ==
    Put(tbl, loc, (IF loc \in DOMAIN tbl THEN tbl[loc] ELSE {}) \cup defs)

\* main.rs:285-294
MergeCollect(entity) ==
    /\ pc = "merge1"
    /\ entity \in DOMAIN sym_table \ merged1
    /\ decl_to_def_table' =
           IF is_declaration(world, entity)
           THEN Accumulate(decl_to_def_table, get_file_location(world, entity),
                           sym_table[entity].definitions)
           ELSE decl_to_def_table
    /\ merged1' = merged1 \cup {entity}
    /\ pc' = IF merged1' = DOMAIN sym_table THEN "merge2" ELSE pc
    /\ UNCHANGED << world, run, sym_table, includes, system_includes, tui, ci,
                    macros, table0, merged2, q, visited, seeds,
                    extracted_symbols, symbols_per_file, unparsable_includes,
                    grouped, includes_per_file, igrouped, files_to_process,
                    processed, output, copied, prev >>

\* main.rs:296-305
MergeApply(entity) ==
    /\ pc = "merge2"
    /\ entity \in DOMAIN sym_table \ merged2
    /\ sym_table' =
           IF is_declaration(world, entity)
           THEN [sym_table EXCEPT ![entity].definitions =
                     @ \cup decl_to_def_table[get_file_location(world, entity)]]
           ELSE sym_table
    /\ merged2' = merged2 \cup {entity}
    /\ pc' = IF merged2' = DOMAIN sym_table THEN "seed" ELSE pc
    /\ UNCHANGED << world, run, includes, system_includes, tui, ci, macros,
                    table0, decl_to_def_table, merged1, q, visited, seeds,
                    extracted_symbols, symbols_per_file, unparsable_includes,
                    grouped, includes_per_file, igrouped, files_to_process,
                    processed, output, copied, prev >>

(***************************************************************************)
(* extract_symbols (main.rs:132-191).                                      *)
(***************************************************************************)
\* main.rs:144-151: the keys whose name is a target
Seeds(w, table) ==
    { entity \in DOMAIN table :
        w.ents[entity].name # "" /\ w.ents[entity].name \in w.targets }

\* the mutation of C1: the loop over desc.definitions (main.rs:174-178) left out
EnqueuedDepsOnly(desc, vis) == Orders(desc.deps \ vis)

\* main.rs:168-178: what one descriptor appends to the queue, in each order
\* the two HashSets can be iterated in
Enqueued(desc, vis) ==
    { od \o of : od \in Orders(desc.deps \ vis),
                 of \in Orders(desc.definitions \ vis) }

\* main.rs:144-151, the whole loop: the keys are pushed in HashMap order
SeedQueue ==
    /\ pc = "seed"
    /\ \E o \in Orders(Seeds(world, sym_table)) : q' = o
    /\ seeds' = Seeds(world, sym_table)
    /\ visited' = {}
    /\ pc' = "flood"
    /\ UNCHANGED << world, run, sym_table, includes, system_includes, tui, ci,
                    macros, table0, decl_to_def_table, merged1, merged2,
                    extracted_symbols, symbols_per_file, unparsable_includes,
                    grouped, includes_per_file, igrouped, files_to_process,
                    processed, output, copied, prev >>

\* main.rs:154-179, one iteration of the while loop
Dequeue ==
    /\ pc = "flood"
    /\ q # << >>
    /\ LET entity == Head(q)
       IN  IF entity \in visited
           THEN /\ q' = Tail(q)
                /\ UNCHANGED << visited, pc >>
           ELSE /\ visited' = visited \cup {entity}
                /\ IF kind(world, entity) \in {"InclusionDirective", "MacroExpansion"}
                   THEN q' = Tail(q) /\ pc' = pc
                   ELSE IF entity \notin DOMAIN sym_table
                        \* main.rs:166: indexing a HashMap by a missing key panics
                        THEN q' = Tail(q) /\ pc' = "panic_lookup"
                        ELSE /\ \E o \in Enqueued(sym_table[entity], visited') :
                                    q' = Tail(q) \o o
                             /\ pc' = pc
    /\ UNCHANGED << world, run, sym_table, includes, system_includes, tui, ci,
                    macros, table0, decl_to_def_table, merged1, merged2, seeds,
                    extracted_symbols, symbols_per_file, unparsable_includes,
                    grouped, includes_per_file, igrouped, files_to_process,
                    processed, output, copied, prev >>

\* main.rs:181-190: the macro expansions are inserted again, which adds nothing
ExtractReturn ==
    /\ pc = "flood"
    /\ q = << >>
    /\ extracted_symbols' =
           visited \cup { e \in visited : kind(world, e) = "MacroExpansion" }
    /\ pc' = "extracted"
    /\ UNCHANGED << world, run, sym_table, includes, system_includes, tui, ci,
                    macros, table0, decl_to_def_table, merged1, merged2, q,
                    visited, seeds, symbols_per_file, unparsable_includes,
                    grouped, includes_per_file, igrouped, files_to_process,
                    processed, output, copied, prev >>

(***************************************************************************)
(* Reconstruction (main.rs:310-464).                                       *)
(***************************************************************************)
\* OrdSymbol (main.rs:312-335): the ordering key is the line of the location
OrdKey(w, e) == w.ents[e].line

\* BTreeSet<OrdSymbol>::insert: an element that compares equal to one of the
\* set is not inserted, and the one of the set stays
BTreeInsert(w, set, e) ==
    IF \E x \in set : OrdKey(w, x) = OrdKey(w, e) THEN set ELSE set \cup {e}

\* iteration of a BTreeSet<OrdSymbol>: ascending key
RECURSIVE Ascending(_, _)
Ascending(w, set) ==
    IF set = {} THEN << >>
    ELSE LET least == CHOOSE x \in set : \A y \in set : OrdKey(w, x) <= OrdKey(w, y)
         IN  << least >> \o Ascending(w, set \ {least})

\* main.rs:345-346 and 357-358
GroupInsert(w, groups, path, e) ==
    Put(groups, path,
        BTreeInsert(w, IF path \in DOMAIN groups THEN groups[path] ELSE {}, e))

\* main.rs:363-373
normalize_include_path(w, sysinc, entity) ==
    LET include_name == w.ents[entity].incl
    IN  IF include_name \in DOMAIN sysinc
        THEN sysinc[include_name]
        ELSE join(pop(get_path(w, entity)), include_name)

\* the mutation of C8: the targets of the unparsable includes are not removed
FilesKeepingUnparsable(w, incs, ui, sysinc) ==
    { f \in { w.src[t] : t \in DOMAIN w.src }
             \cup { normalize_include_path(w, sysinc, i) : i \in incs } :
        file_name(f) \notin DOMAIN sysinc }

\* main.rs:375-387
FilesToProcess(w, incs, ui, sysinc) ==
    LET uifs == { normalize_include_path(w, sysinc, i) : i \in ui }
    IN  { f \in { w.src[t] : t \in DOMAIN w.src }
                 \cup { normalize_include_path(w, sysinc, i) : i \in incs } :
            f \notin uifs /\ file_name(f) \notin DOMAIN sysinc }

\* main.rs:420-436: the includes of the file go in first, then its symbols
RECURSIVE InsertAll(_, _, _)
InsertAll(w, set, seq) ==
    IF seq = << >> THEN set
    ELSE InsertAll(w, BTreeInsert(w, set, Head(seq)), Tail(seq))

AllOutputSymbols(w, file, spf, ipf, ui, sysinc) ==
    LET kept == SelectSeq(Ascending(w, ipf[file]),
                          LAMBDA i : ~(i \in ui \/ normalize_include_path(w, sysinc, i)
                                                      \notin DOMAIN spf))
    IN  InsertAll(w, InsertAll(w, {}, kept), Ascending(w, spf[file]))

\* main.rs:442-456: the lines written for the symbols, in the order written
RECURSIVE Written(_, _)
Written(w, syms) ==
    IF syms = << >> THEN << >>
    ELSE LET sym == Head(syms)
         IN  [k \in 1..(w.ents[sym].end - w.ents[sym].start + 1) |->
                  w.ents[sym].start + k - 1]
             \o Written(w, Tail(syms))

\* main.rs:406
source_directory == << "/", "examples" >>

\* Path::strip_prefix(..).unwrap() (main.rs:440, 461) panics on a path that is
\* not under the directory
UnderSourceDirectory(p) ==
    /\ Len(p) > Len(source_directory)
    /\ SubSeq(p, 1, Len(source_directory) + 1) = source_directory \o << "/" >>

\* main.rs:341-348, one extracted symbol per step, in HashSet order
GroupSymbol(sym) ==
    /\ pc = "extracted"
    /\ sym \in extracted_symbols \ grouped
    /\ IF kind(world, sym) = "InclusionDirective"
       THEN /\ unparsable_includes' = unparsable_includes \cup {sym}
            /\ symbols_per_file' = symbols_per_file
       ELSE /\ symbols_per_file' =
                   GroupInsert(world, symbols_per_file, get_path(world, sym), sym)
            /\ unparsable_includes' = unparsable_includes
    /\ grouped' = grouped \cup {sym}
    /\ UNCHANGED << world, pc, run, sym_table, includes, system_includes, tui,
                    ci, macros, table0, decl_to_def_table, merged1, merged2, q,
                    visited, seeds, extracted_symbols, includes_per_file,
                    igrouped, files_to_process, processed, output, copied, prev >>

\* main.rs:355-359, one include per step, in HashSet order
GroupInclude(include) ==
    /\ pc = "extracted"
    /\ grouped = extracted_symbols
    /\ include \in includes \ igrouped
    /\ includes_per_file' =
           GroupInsert(world, includes_per_file, get_path(world, include), include)
    /\ igrouped' = igrouped \cup {include}
    /\ UNCHANGED << world, pc, run, sym_table, includes, system_includes, tui,
                    ci, macros, table0, decl_to_def_table, merged1, merged2, q,
                    visited, seeds, extracted_symbols, symbols_per_file,
                    unparsable_includes, grouped, files_to_process, processed,
                    output, copied, prev >>

\* main.rs:375-387
ComputeFiles ==
    /\ pc = "extracted"
    /\ grouped = extracted_symbols
    /\ igrouped = includes
    /\ files_to_process' =
           FilesToProcess(world, includes, unparsable_includes, system_includes)
    /\ pc' = "emit"
    /\ UNCHANGED << world, run, sym_table, includes, system_includes, tui, ci,
                    macros, table0, decl_to_def_table, merged1, merged2, q,
                    visited, seeds, extracted_symbols, symbols_per_file,
                    unparsable_includes, grouped, includes_per_file, igrouped,
                    processed, output, copied, prev >>

\* main.rs:413-457, one file per step, in HashSet order
EmitFile(file) ==
    /\ pc = "emit"
    /\ file \in files_to_process \ processed
    /\ processed' = processed \cup {file}
    /\ IF file \notin DOMAIN symbols_per_file
       THEN UNCHANGED << output, pc >>
       ELSE IF file \notin DOMAIN includes_per_file
            \* main.rs:422: indexing a HashMap by a missing key panics
            THEN output' = output /\ pc' = "panic_index"
            ELSE IF ~UnderSourceDirectory(file)
            THEN output' = output /\ pc' = "panic_prefix"
            ELSE /\ output' =
                        Put(output, file,
                            Written(world,
                                    Ascending(world,
                                        AllOutputSymbols(world, file,
                                            symbols_per_file, includes_per_file,
                                            unparsable_includes, system_includes))))
                 /\ pc' = pc
    /\ UNCHANGED << world, run, sym_table, includes, system_includes, tui, ci,
                    macros, table0, decl_to_def_table, merged1, merged2, q,
                    visited, seeds, extracted_symbols, symbols_per_file,
                    unparsable_includes, grouped, includes_per_file, igrouped,
                    files_to_process, copied, prev >>

\* main.rs:459-463, the whole loop
CopyIncludes ==
    /\ pc = "emit"
    /\ processed = files_to_process
    /\ LET sources == { normalize_include_path(world, system_includes, i) :
                          i \in unparsable_includes }
       IN  IF \A p \in sources : UnderSourceDirectory(p)
           THEN copied' = copied \cup sources /\ pc' = "done"
           ELSE \E some \in SUBSET { p \in sources : UnderSourceDirectory(p) } :
                    copied' = copied \cup some /\ pc' = "panic_prefix"
    /\ UNCHANGED << world, run, sym_table, includes, system_includes, tui, ci,
                    macros, table0, decl_to_def_table, merged1, merged2, q,
                    visited, seeds, extracted_symbols, symbols_per_file,
                    unparsable_includes, grouped, includes_per_file, igrouped,
                    files_to_process, processed, output, prev >>

\* the output tree: the minimized files and the files copied verbatim
Tree == [files |-> output, copied |-> copied]

\* The program is run again over the same input.  target_dir is kept: its
\* files are overwritten one by one (main.rs:409-411, 440).
Rerun ==
    /\ pc = "done"
    /\ run = 1
    /\ run' = 2
    /\ prev' = Tree
    /\ pc' = "discover"
    /\ sym_table' = EmptyMap
    /\ includes' = {}
    /\ system_includes' = EmptyMap
    /\ tui' = 1
    /\ ci' = 0
    /\ macros' = EmptyMap
    /\ table0' = EmptyMap
    /\ decl_to_def_table' = EmptyMap
    /\ merged1' = {}
    /\ merged2' = {}
    /\ q' = << >>
    /\ visited' = {}
    /\ seeds' = {}
    /\ extracted_symbols' = {}
    /\ symbols_per_file' = EmptyMap
    /\ unparsable_includes' = {}
    /\ grouped' = {}
    /\ includes_per_file' = EmptyMap
    /\ igrouped' = {}
    /\ files_to_process' = {}
    /\ processed' = {}
    /\ UNCHANGED << world, output, copied >>

Next ==
    \/ Discover
    \/ BuildMacros
    \/ AnalyseChild
    \/ NextUnit
    \/ \E entity \in DOMAIN sym_table : MergeCollect(entity)
    \/ \E entity \in DOMAIN sym_table : MergeApply(entity)
    \/ SeedQueue
    \/ Dequeue
    \/ ExtractReturn
    \/ \E sym \in extracted_symbols : GroupSymbol(sym)
    \/ \E include \in includes : GroupInclude(include)
    \/ ComputeFiles
    \/ \E file \in files_to_process : EmitFile(file)
    \/ CopyIncludes
    \/ Rerun

Spec == Init /\ [][Next]_vars

(***************************************************************************)
(* The merge and extract_symbols on drawn symbol tables.  The entities:    *)
(* main, the declaration of f in util.h as seen by two translation units   *)
(* (one location, two entities), a macro expansion, an inclusion directive *)
(* and a macro definition.  The declarations are the keys; a table is any  *)
(* assignment of at most MaxEdges deps/definitions edges.                  *)
(***************************************************************************)
TableWorld(targets) ==
    [ents |-> <<
        Decl("main", 1, main_c, 2, 2, 4, TRUE, 1, {}),
        Decl("f",    1, util_h, 1, 1, 1, FALSE, 0, {}),
        Decl("f",    2, util_h, 1, 1, 1, FALSE, 0, {}),
        Prep("MacroExpansion", "FOO", << >>, 1, main_c, 3),
        Prep("InclusionDirective", "", << "util", ".h" >>, 1, main_c, 1),
        Prep("MacroDefinition", "FOO", << >>, 1, util_h, 2) >>,
     tus |-> << 1, 2 >>, src |-> << main_c, util_c >>, targets |-> targets]

TableKeys(w) == { e \in Ent(w) : is_declaration(w, e) }

Edges(w) == [from : TableKeys(w), to : Ent(w), set : {"deps", "definitions"}]

RECURSIVE SubsetsUpTo(_, _)
SubsetsUpTo(S, n) ==
    IF n = 0 THEN {{}}
    ELSE LET smaller == SubsetsUpTo(S, n - 1)
         IN  smaller \cup { T \cup {x} : T \in smaller, x \in S }

TableOf(w, E) ==
    [k \in TableKeys(w) |->
        [deps        |-> { x.to : x \in { y \in E : y.from = k /\ y.set = "deps" } },
         definitions |-> { x.to : x \in { y \in E : y.from = k /\ y.set = "definitions" } }]]

InitTable ==
    /\ \E targets \in {{"main"}, {"f"}, {"main", "f"}} : Fresh(TableWorld(targets))
    /\ run = 1
    /\ prev = << >>
    /\ \E E \in SubsetsUpTo(Edges(world), MaxEdges), start \in {"merge1", "seed"} :
          /\ sym_table = TableOf(world, E)
          /\ table0 = sym_table
          /\ pc = start

NextTable ==
    \/ \E entity \in DOMAIN sym_table : MergeCollect(entity)
    \/ \E entity \in DOMAIN sym_table : MergeApply(entity)
    \/ SeedQueue
    \/ Dequeue
    \/ ExtractReturn

SpecTable == InitTable /\ [][NextTable]_vars

(***************************************************************************)
(* Properties.                                                             *)
(***************************************************************************)
Leaf(e) == kind(world, e) \in {"MacroExpansion", "InclusionDirective"}

\* the symbols that have a descriptor the flood fill reads
Described(S) == { e \in S : e \in DOMAIN sym_table /\ ~Leaf(e) }

EdgesOf(e) == sym_table[e].deps \cup sym_table[e].definitions

\* least set that holds S and is closed under deps and definitions edges
RECURSIVE ReachableFrom(_)
ReachableFrom(S) ==
    LET step == S \cup UNION { EdgesOf(e) : e \in Described(S) }
    IN  IF step = S THEN S ELSE ReachableFrom(step)

NamedKeys ==
    { k \in DOMAIN sym_table :
        world.ents[k].name # "" /\ world.ents[k].name \in world.targets }

\* C1: whatever the order in which the queue is seeded and drained, the set
\* extract_symbols returns holds the seeds (the keys named by a target), is
\* closed under the deps and definitions edges of its symbols that have a
\* descriptor, and holds nothing but what a path of such edges reaches from
\* a seed: it is exactly the set reachable from the seeds.
C1_ExtractedIsReachableSet ==
    pc = "extracted" =>
        /\ NamedKeys \subseteq extracted_symbols
        /\ \A e \in Described(extracted_symbols) : EdgesOf(e) \subseteq extracted_symbols
        /\ extracted_symbols \subseteq ReachableFrom(NamedKeys)

\* two seeds (their order in the queue is free), a symbol reached over an
\* edge, and a leaf among the extracted symbols
C1_Witness ==
    /\ pc = "extracted"
    /\ Cardinality(seeds) >= 2
    /\ extracted_symbols \ seeds # {}
    /\ \E e \in extracted_symbols : Leaf(e)

SameLocation(a, b) ==
    /\ world.ents[a].file = world.ents[b].file
    /\ world.ents[a].line = world.ents[b].line
    /\ world.ents[a].col = world.ents[b].col

DeclKeys == { k \in DOMAIN sym_table : is_declaration(world, k) }

MergeDone == DOMAIN sym_table # {} /\ merged2 = DOMAIN sym_table

\* C4: after the two-phase merge every declaration-kind key has as its
\* definitions the union of the definitions that the declaration-kind keys
\* at its source location had before the merge (so two keys at one location
\* have identical definitions, in whatever order the keys were visited);
\* during and after the merge no definition is removed and no deps set
\* changes.
C4_MergeConverges ==
    /\ \A k \in DOMAIN table0 :
          /\ k \in DOMAIN sym_table
          /\ sym_table[k].deps = table0[k].deps
          /\ table0[k].definitions \subseteq sym_table[k].definitions
    /\ MergeDone =>
          \A a \in DeclKeys :
              sym_table[a].definitions =
                  UNION { table0[b].definitions :
                            b \in { c \in DeclKeys : SameLocation(a, c) } }

\* the two views of one declaration began with different definitions and the
\* merge gave each the definitions of the other
C4_Witness ==
    /\ MergeDone
    /\ \E a, b \in DeclKeys :
          /\ a # b
          /\ SameLocation(a, b)
          /\ table0[a].definitions # {}
          /\ table0[b].definitions # {}
          /\ table0[a].definitions # table0[b].definitions
          /\ sym_table[a].definitions = sym_table[b].definitions

Range(seq) == { seq[i] : i \in DOMAIN seq }

LinesOf(e) == world.ents[e].start .. world.ents[e].end

Target(i) == normalize_include_path(world, system_includes, i)

\* C2: in Scenario A the extracted set is exactly the forward declaration
\* of helper (1), main (2) and the definition of helper (3).
C2_ScenarioAExtractsDeclaration ==
    (world = ScenarioA /\ pc = "extracted") => extracted_symbols = {1, 2, 3}

\* C3: in Scenario C the extraction holds main (3), a util.h declaration of
\* add (2 or 5) and the util.c definition of add (6); main.c, util.h and
\* util.c are written, main.c with its include line, util.h with the
\* declaration only and util.c with the definition only.
C3_ScenarioCCrossesUnits ==
    (world \in {ScenarioC(<< 1, 2 >>), ScenarioC(<< 2, 1 >>)} /\ pc = "done") =>
        /\ {3, 6} \subseteq extracted_symbols
        /\ extracted_symbols \cap {2, 5} # {}
        /\ DOMAIN output = {main_c, util_h, util_c}
        /\ 1 \in Range(output[main_c])
        /\ output[util_h] = << 1 >>
        /\ output[util_c] = << 2, 3, 4 >>

\* C5: when the run has ended, for every processed file with at least one
\* extracted symbol, every line of the range of every extracted symbol of
\* that file other than an inclusion directive is in the file written for it.
C5_ExtractedTextIsEmitted ==
    pc = "done" => \A f \in processed :
        f \in DOMAIN symbols_per_file =>
            /\ f \in DOMAIN output
            /\ \A sym \in extracted_symbols :
                  (kind(world, sym) # "InclusionDirective" /\ get_path(world, sym) = f)
                      => LinesOf(sym) \subseteq Range(output[f])

\* C6: the line numbers written to a minimized file are strictly increasing.
C6_OutputIsSlice ==
    \A f \in DOMAIN output :
        \A i, j \in DOMAIN output[f] : i < j => output[f][i] < output[f][j]

\* C7: a second run over the same input ends with the output tree of the
\* first run.
C7_Idempotent ==
    (run = 2 /\ pc = "done") => Tree = prev

\* C8 as stated: an inclusion directive is unparsable exactly when it is
\* extracted and its target has no group of extracted symbols; the target of
\* an extracted include that has a group is written minimized, not copied.
C8_UnparsableIffNoGroup ==
    pc = "done" =>
        /\ unparsable_includes =
              { i \in extracted_symbols :
                    /\ kind(world, i) = "InclusionDirective"
                    /\ Target(i) \notin DOMAIN symbols_per_file }
        /\ \A i \in extracted_symbols :
              (kind(world, i) = "InclusionDirective"
                  /\ Target(i) \in DOMAIN symbols_per_file)
                  => (Target(i) \in DOMAIN output /\ Target(i) \notin copied)

\* C8 amended: an inclusion directive is unparsable exactly when it is
\* extracted, whether or not its target has a group of extracted symbols;
\* the target of every extracted include is removed from the files to
\* process, is never written minimized and is copied verbatim, and nothing
\* else is copied.
C8_UnparsableIffExtracted ==
    /\ pc \in {"emit", "done", "panic_index", "panic_prefix"} =>
          /\ unparsable_includes =
                { i \in extracted_symbols : kind(world, i) = "InclusionDirective" }
          /\ \A i \in unparsable_includes :
                Target(i) \notin files_to_process /\ Target(i) \notin DOMAIN output
    /\ pc = "done" => copied = { Target(i) : i \in unparsable_includes }

\* the run ended with an extracted include whose target has extracted symbols
C8_Witness ==
    /\ pc = "done"
    /\ \E i \in unparsable_includes : Target(i) \in DOMAIN symbols_per_file

\* C9: after dependency analysis and merge every target of a deps or
\* definitions edge is a key of the table or a macro expansion or inclusion
\* directive, and the descriptor lookup of the flood fill never fails.
C9_EdgesHaveDescriptors ==
    /\ pc \in {"seed", "flood", "extracted"} =>
          \A k \in DOMAIN sym_table :
              \A t \in EdgesOf(k) : t \in DOMAIN sym_table \/ Leaf(t)
    /\ pc # "panic_lookup"

\* C10: after dependency analysis, every macro expansion and inclusion
\* directive outside system headers that is in the translation unit and the
\* file of an analysed symbol S and has its expansion line in the line range
\* of S is in S.deps.
C10_RangeEntriesAreDeps ==
    pc \in {"merge1", "merge2", "seed", "flood", "extracted"} =>
        \A S \in DOMAIN sym_table : \A m \in Ent(world) :
            ( /\ ~world.ents[S].sys
              /\ ~world.ents[m].sys
              /\ Leaf(m)
              /\ world.ents[m].tu = world.ents[S].tu
              /\ world.ents[m].file = world.ents[S].file
              /\ world.ents[S].start <= world.ents[m].expline
              /\ world.ents[m].expline <= world.ents[S].end )
            => m \in sym_table[S].deps

====
